---- MODULE Spec2Model ----
(***************************************************************************)
(* Model of the compiler driver of src/src/lib.rs (desugar_book,           *)
(* encode_pattern_matching, compile_book, run_book, run_compiled,          *)
(* display_warnings) and of the unbound-constructor check of               *)
(* src/src/term/check/unbound_pats.rs.                                     *)
(***************************************************************************)
EXTENDS Naturals, Sequences, FiniteSets

VARIABLES
  book,          \* the Book handed to the compiler: [ctrs, defs]
  opts,          \* CompileOpts
  run_opts,      \* RunOpts
  warning_opts,  \* WarningOpts
  pc,            \* control location: [fn |-> function, i |-> statement index]
  info,          \* ctx.info: [errs, warns, err_counter]
  passes_run,    \* the passes and calls executed so far, in order
  result,        \* per function: "none", "Ok" or "Err"
  net,           \* the runtime root net: "none", "Eager" or "Lazy"
  rdex,          \* number of redexes left in the root net
  invocation,    \* 1 or 2: which invocation on the same input is running
  prev           \* what the first invocation returned

vars == <<book, opts, run_opts, warning_opts, pc, info, passes_run, result,
          net, rdex, invocation, prev>>

\* ------------------------------------------------------------------------
\* Bounds
\* ------------------------------------------------------------------------

\* Total number of rules of a multi-rule book.
MaxRules == 3

\* Redexes the root net may hold after the first expand.
MaxRdex == 2

\* ------------------------------------------------------------------------
\* Patterns and terms (term::Pattern, term::Term as unbound_pats.rs reads them)
\* ------------------------------------------------------------------------

Names == {"A", "B"}

PVar == [k |-> "Var", nam |-> "x", args |-> <<>>]
PNum == [k |-> "Num", nam |-> "0", args |-> <<>>]
PCtr(nam, args) == [k |-> "Ctr", nam |-> nam, args |-> args]
PTup(fst, snd) == [k |-> "Tup", nam |-> "", args |-> <<fst, snd>>]
PLst(args) == [k |-> "Lst", nam |-> "", args |-> args]

\* Let { pat, val, nxt }: pats = <<pat>>, sub = <<val, nxt>>.
\* Mat { matched, arms }: pats = the arms' patterns, sub = <<matched>> \o the arms' bodies.
\* App, Tup, Dup, Sup, Opx: sub = <<fst, snd>>.  Lam, Chn: sub = <<bod>>.
TLeaf(k) == [k |-> k, pats |-> <<>>, sub |-> <<>>]
TLet(pat, val, nxt) == [k |-> "Let", pats |-> <<pat>>, sub |-> <<val, nxt>>]
TMat1(matched, p, b) == [k |-> "Mat", pats |-> <<p>>, sub |-> <<matched, b>>]
TMat2(matched, p, b, q, c) == [k |-> "Mat", pats |-> <<p, q>>, sub |-> <<matched, b, c>>]
TBin(k, fst, snd) == [k |-> k, pats |-> <<>>, sub |-> <<fst, snd>>]
TUn(k, bod) == [k |-> k, pats |-> <<>>, sub |-> <<bod>>]

LeafKinds == {"Var", "Lnk", "Ref", "Num", "Str", "Era", "Err"}
BinKinds == {"App", "Tup", "Dup", "Sup", "Opx"}
UnKinds == {"Lam", "Chn"}

\* ------------------------------------------------------------------------
\* diagnostics::Info
\* ------------------------------------------------------------------------

NewInfo == [errs |-> <<>>, warns |-> <<>>, err_counter |-> 0]

OkRes == [ok |-> TRUE, nam |-> ""]
ErrRes(nam) == [ok |-> FALSE, nam |-> nam]

start_pass(i) == [i EXCEPT !.err_counter = Len(i.errs)]

take_err(i, res, def_name) ==
  IF res.ok THEN i
  ELSE [i EXCEPT !.errs = Append(@, [def |-> def_name, err |-> res.nam])]

error(i, err) == [i EXCEPT !.errs = Append(@, [def |-> 0, err |-> err])]

warning(i, w) == [i EXCEPT !.warns = Append(@, w)]

has_errors(i) == Len(i.errs) > 0

\* The fatal check that ends a pass: Err when the batch opened by start_pass
\* holds an error.
fatal(i) == IF Len(i.errs) = i.err_counter THEN "Ok" ELSE "Err"

\* ------------------------------------------------------------------------
\* term/check/unbound_pats.rs
\* ------------------------------------------------------------------------

is_ctr(nam, ctrs) == nam \in ctrs

\* unbound_loop that pushes only the first component of a tuple pattern.
RECURSIVE unbound_loop_fst_only(_, _, _)
unbound_loop_fst_only(check, unbounds, ctrs) ==
  IF check = <<>> THEN unbounds
  ELSE LET pat == check[Len(check)]
           rest == SubSeq(check, 1, Len(check) - 1)
       IN CASE pat.k = "Ctr" ->
                 unbound_loop_fst_only(rest \o pat.args,
                                       IF ~is_ctr(pat.nam, ctrs)
                                       THEN unbounds \cup {pat.nam} ELSE unbounds,
                                       ctrs)
            [] pat.k = "Tup" ->
                 unbound_loop_fst_only(rest \o <<pat.args[1]>>, unbounds, ctrs)
            [] pat.k = "Lst" ->
                 unbound_loop_fst_only(rest \o pat.args, unbounds, ctrs)
            [] OTHER -> unbound_loop_fst_only(rest, unbounds, ctrs)

\* The while-let loop of Pattern::unbound_pats: check is the work stack
\* (popped from its end), unbounds the set built so far.
RECURSIVE unbound_loop(_, _, _)
unbound_loop(check, unbounds, ctrs) ==
  IF check = <<>> THEN unbounds
  ELSE LET pat == check[Len(check)]
           rest == SubSeq(check, 1, Len(check) - 1)
       IN CASE pat.k = "Ctr" ->
                 unbound_loop(rest \o pat.args,
                              IF ~is_ctr(pat.nam, ctrs) THEN unbounds \cup {pat.nam}
                                                        ELSE unbounds,
                              ctrs)
            [] pat.k = "Tup" ->
                 unbound_loop(rest \o <<pat.args[1], pat.args[2]>>, unbounds, ctrs)
            [] pat.k = "Lst" ->
                 unbound_loop(rest \o pat.args, unbounds, ctrs)
            [] OTHER -> unbound_loop(rest, unbounds, ctrs)

unbound_pats(pat, ctrs) == unbound_loop(<<pat>>, {}, ctrs)

\* Pattern::check_unbounds: the results the call can return.  The error names
\* unbounds.iter().next(): the first element of a HashSet in its iteration
\* order, which is any element of the set.
check_unbounds(pat, ctrs) ==
  LET unbounds == unbound_pats(pat, ctrs)
  IN IF unbounds # {} THEN {ErrRes(unbound) : unbound \in unbounds} ELSE {OkRes}

\* `r?; rest`: an Err of r is returned, an Ok goes on with rest.
Try(r, rest) == {x \in r : ~x.ok} \cup (IF OkRes \in r THEN rest ELSE {})

\* Term::check_unbound_pats: the results the call can return.
RECURSIVE Term_check_unbound_pats(_, _)
RECURSIVE check_arms(_, _, _)
check_arms(term, a, ctrs) ==
  IF a > Len(term.pats) THEN {OkRes}
  ELSE Try(check_unbounds(term.pats[a], ctrs),
           Try(Term_check_unbound_pats(term.sub[a + 1], ctrs),
               check_arms(term, a + 1, ctrs)))

Term_check_unbound_pats(term, ctrs) ==
  CASE term.k = "Let" ->
         Try(check_unbounds(term.pats[1], ctrs),
             Try(Term_check_unbound_pats(term.sub[1], ctrs),
                 Try(Term_check_unbound_pats(term.sub[2], ctrs), {OkRes})))
    [] term.k = "Mat" ->
         Try(Term_check_unbound_pats(term.sub[1], ctrs), check_arms(term, 1, ctrs))
    [] term.k \in BinKinds ->
         Try(Term_check_unbound_pats(term.sub[1], ctrs),
             Try(Term_check_unbound_pats(term.sub[2], ctrs), {OkRes}))
    [] term.k \in UnKinds ->
         Try(Term_check_unbound_pats(term.sub[1], ctrs), {OkRes})
    [] OTHER -> {OkRes}

\* self.info.take_err(res, Some(&def_name)) for every result the call can
\* return, from every info the loop can have built so far.
take_errs(infos, results, def_name) ==
  {take_err(i, res, def_name) : i \in infos, res \in results}

\* for pat in &rule.pats { ... }
RECURSIVE check_rule_pats(_, _, _, _, _)
check_rule_pats(infos, pats, p, def_name, ctrs) ==
  IF p > Len(pats) THEN infos
  ELSE check_rule_pats(take_errs(infos, check_unbounds(pats[p], ctrs), def_name),
                       pats, p + 1, def_name, ctrs)

\* for rule in &def.rules { ... }
RECURSIVE check_rules(_, _, _, _, _)
check_rules(infos, rules, r, def_name, ctrs) ==
  IF r > Len(rules) THEN infos
  ELSE LET after_pats == check_rule_pats(infos, rules[r].pats, 1, def_name, ctrs)
           after_body == take_errs(after_pats,
                                   Term_check_unbound_pats(rules[r].body, ctrs),
                                   def_name)
       IN check_rules(after_body, rules, r + 1, def_name, ctrs)

\* for (def_name, def) in self.book.defs.iter() { ... }
RECURSIVE check_defs(_, _, _, _)
check_defs(infos, defs, d, ctrs) ==
  IF d > Len(defs) THEN infos
  ELSE check_defs(check_rules(infos, defs[d], 1, d, ctrs), defs, d + 1, ctrs)

\* Ctx::check_unbound_pats: the infos the pass can leave behind; fatal of
\* each is the pass's result.
Ctx_check_unbound_pats(i, b) == check_defs({start_pass(i)}, b.defs, 1, b.ctrs)

\* ------------------------------------------------------------------------
\* lib.rs: options
\* ------------------------------------------------------------------------

Flags == {"eta", "ref_to_ref", "prune", "pre_reduce", "supercombinators",
          "simplify_main", "pre_reduce_refs", "merge", "inline"}

\* CompileOpts::default(): every flag false.
default_opts == [f \in Flags |-> FALSE]

\* CompileOpts::heavy(): all optimizations enabled.
heavy == [f \in Flags |-> TRUE]

\* CompileOpts::light(): all disabled, except detach supercombinators.
light == [default_opts EXCEPT !["supercombinators"] = TRUE]

\* CompileOpts::lazy_mode(&mut self)
lazy_mode(o) == [o EXCEPT !["supercombinators"] = FALSE, !["pre_reduce"] = FALSE]

WarnStates == {"Warn", "Allow", "Deny"}
WarningKinds == {"MatchOnlyVars", "UnusedDefinition"}

\* warn_state with the two fields taken for one another.
warn_state_swapped(wopts, w) ==
  CASE w = "MatchOnlyVars" -> wopts.unused_defs
    [] w = "UnusedDefinition" -> wopts.match_only_vars

\* The match of WarningOpts::filter: the state the options give a warning's kind.
warn_state(wopts, w) ==
  CASE w = "MatchOnlyVars" -> wopts.match_only_vars
    [] w = "UnusedDefinition" -> wopts.unused_defs

\* WarningOpts::filter
filter(wopts, warns, ws) == SelectSeq(warns, LAMBDA w : warn_state(wopts, w) = ws)

\* display_warnings: printing aside, Err when a denied warning was produced.
display_warnings(warns, wopts) ==
  LET denies == filter(wopts, warns, "Deny")
  IN IF denies # <<>> THEN "Err" ELSE "Ok"

\* ------------------------------------------------------------------------
\* lib.rs: the pipeline, one entry per statement, in source order.
\*   pass: the pass or function called     try: the call is followed by `?`
\*   when: "always", or the CompileOpts flag of the enclosing `if`
\*   call: the callee is modelled as a function of its own
\* ------------------------------------------------------------------------

Stmt(pass) == [pass |-> pass, try |-> FALSE, when |-> "always", call |-> FALSE]
Fallible(pass) == [pass |-> pass, try |-> TRUE, when |-> "always", call |-> FALSE]
If(flag, stmt) == [stmt EXCEPT !.when = flag]
Fn(stmt) == [stmt EXCEPT !.call = TRUE]

\* desugar_book with linearize_vars moved after eta_reduction.
desugar_book_linearize_late ==
  << Stmt("set_entrypoint"),
     Stmt("check_shared_names"),
     Stmt("encode_adts"),
     Stmt("encode_builtins"),
     Fn(Fallible("encode_pattern_matching")),
     Fallible("check_unbound_vars"),
     Fallible("normalize_native_matches"),
     Fallible("check_unbound_vars"),
     Stmt("make_var_names_unique"),
     Stmt("eta_reduction"),
     Stmt("linearize_vars"),
     Fallible("check_unbound_vars"),
     If("supercombinators", Stmt("detach_supercombinators")),
     If("ref_to_ref", Fallible("simplify_ref_to_ref")),
     If("simplify_main", Stmt("simplify_main_ref")),
     Stmt("prune"),
     If("inline", Stmt("inline")),
     If("merge", Stmt("merge_definitions")) >>

desugar_book ==
  << Stmt("set_entrypoint"),
     Stmt("check_shared_names"),
     Stmt("encode_adts"),
     Stmt("encode_builtins"),
     Fn(Fallible("encode_pattern_matching")),
     Fallible("check_unbound_vars"),
     Fallible("normalize_native_matches"),
     Fallible("check_unbound_vars"),
     Stmt("make_var_names_unique"),
     Stmt("linearize_vars"),
     Stmt("eta_reduction"),
     Fallible("check_unbound_vars"),
     If("supercombinators", Stmt("detach_supercombinators")),
     If("ref_to_ref", Fallible("simplify_ref_to_ref")),
     If("simplify_main", Stmt("simplify_main_ref")),
     Stmt("prune"),
     If("inline", Stmt("inline")),
     If("merge", Stmt("merge_definitions")) >>

\* encode_pattern_matching with flatten_rules called before extract_adt_matches.
encode_pattern_matching_flatten_first ==
  << Fallible("check_arity"),
     Stmt("resolve_ctrs_in_pats"),
     Fn(Fallible("check_unbound_pats")),
     Fallible("check_ctrs_arities"),
     Fallible("resolve_refs"),
     Stmt("desugar_let_destructors"),
     Stmt("desugar_implicit_match_binds"),
     Fallible("check_unbound_vars"),
     Fallible("linearize_matches"),
     Stmt("flatten_rules"),
     Fallible("extract_adt_matches"),
     Fallible("infer_def_types"),
     Fallible("check_exhaustive_patterns"),
     Stmt("encode_pattern_matching_functions") >>

\* encode_pattern_matching with the `?` after check_arity left out.
encode_pattern_matching_no_try ==
  << Stmt("check_arity"),
     Stmt("resolve_ctrs_in_pats"),
     Fn(Fallible("check_unbound_pats")),
     Fallible("check_ctrs_arities"),
     Fallible("resolve_refs"),
     Stmt("desugar_let_destructors"),
     Stmt("desugar_implicit_match_binds"),
     Fallible("check_unbound_vars"),
     Fallible("linearize_matches"),
     Fallible("extract_adt_matches"),
     Stmt("flatten_rules"),
     Fallible("infer_def_types"),
     Fallible("check_exhaustive_patterns"),
     Stmt("encode_pattern_matching_functions") >>

encode_pattern_matching ==
  << Fallible("check_arity"),
     Stmt("resolve_ctrs_in_pats"),
     Fn(Fallible("check_unbound_pats")),
     Fallible("check_ctrs_arities"),
     Fallible("resolve_refs"),
     Stmt("desugar_let_destructors"),
     Stmt("desugar_implicit_match_binds"),
     Fallible("check_unbound_vars"),
     Fallible("linearize_matches"),
     Fallible("extract_adt_matches"),
     Stmt("flatten_rules"),
     Fallible("infer_def_types"),
     Fallible("check_exhaustive_patterns"),
     Stmt("encode_pattern_matching_functions") >>

\* compile_book with the `?` after desugar_book left out.
compile_book_no_try ==
  << Fn(Stmt("desugar_book")),
     Stmt("book_to_nets"),
     Fallible("nets_to_hvmc"),
     If("pre_reduce", Fallible("pre_reduce_book")),
     If("prune", Stmt("prune_defs")) >>

compile_book ==
  << Fn(Fallible("desugar_book")),
     Stmt("book_to_nets"),
     Fallible("nets_to_hvmc"),
     If("pre_reduce", Fallible("pre_reduce_book")),
     If("prune", Stmt("prune_defs")) >>

run_book ==
  << Fn(Fallible("compile_book")),
     Fn(Fallible("display_warnings")),
     Stmt("debug_hook"),
     Fn(Stmt("run_compiled")),
     Stmt("hvmc_to_net"),
     Stmt("net_to_term"),
     Stmt("resugar_adts"),
     Stmt("resugar_builtins") >>

Body(fn) ==
  CASE fn = "desugar_book" -> desugar_book
    [] fn = "encode_pattern_matching" -> encode_pattern_matching
    [] fn = "compile_book" -> compile_book
    [] fn = "run_book" -> run_book
    [] OTHER -> <<>>

Fns == {"run_book", "compile_book", "desugar_book", "encode_pattern_matching",
        "check_unbound_pats", "display_warnings", "run_compiled"}

TableFns == {"run_book", "compile_book", "desugar_book", "encode_pattern_matching"}

\* The passes that return a Result: those called with `?`.
ResultPasses ==
  {"check_unbound_vars", "normalize_native_matches", "simplify_ref_to_ref",
   "check_arity", "check_unbound_pats", "check_ctrs_arities", "resolve_refs",
   "linearize_matches", "extract_adt_matches", "infer_def_types",
   "check_exhaustive_patterns", "nets_to_hvmc", "pre_reduce_book"}

\* Passes that record errors in ctx.info and return unit.
NonFatalErrorPasses == {"check_shared_names"}

ErrorPasses == ResultPasses \cup NonFatalErrorPasses

\* The warning a pass can add to ctx.info.warns.
PassWarning(pass) ==
  CASE pass = "extract_adt_matches" -> {"MatchOnlyVars"}
    [] pass = "prune" -> {"UnusedDefinition"}
    [] OTHER -> {}

\* ------------------------------------------------------------------------
\* Input books
\* ------------------------------------------------------------------------

Rule(pats, body) == [pats |-> pats, body |-> body]

TVar == TLeaf("Var")
CtrA == PCtr("A", <<>>)
CtrB == PCtr("B", <<>>)

\* Patterns, by nesting depth.
Pat0 == {PVar, PNum} \cup {PCtr(n, <<>>) : n \in Names}

Wrap(S, T) ==
  {PCtr(n, <<p>>) : n \in Names, p \in S}
    \cup {PCtr(n, <<p, q>>) : n \in Names, p \in S, q \in T}
    \cup {PTup(p, q) : p \in S, q \in T}
    \cup {PLst(<<p>>) : p \in S}
    \cup {PLst(<<p, q>>) : p \in S, q \in T}
    \cup {PLst(<<>>)}

Pat1 == Pat0 \cup Wrap(Pat0, Pat0)
Pat2 == Pat1 \cup Wrap(Pat1, {PVar, CtrB}) \cup {PTup(CtrA, p) : p \in Pat1}

\* Terms, by nesting depth.  There is no Term::Lst: encode_builtins has
\* replaced every list literal before the check runs.
TermPats == {PVar, CtrA, CtrB, PTup(CtrA, CtrB)}

Node(P, S, T) ==
  {TLet(p, s, t) : p \in P, s \in S, t \in T}
    \cup {TMat1(s, p, t) : p \in P, s \in S, t \in T}
    \cup {TBin(k, s, t) : k \in BinKinds, s \in S, t \in T}
    \cup {TUn(k, s) : k \in UnKinds, s \in S}

Term0 == {TLeaf(k) : k \in LeafKinds}
Term1 == {TVar} \cup Node(TermPats, {TVar}, {TVar})
           \cup {TMat2(TVar, p, TVar, q, TVar) : p \in {CtrA, CtrB}, q \in {CtrA, CtrB}}
Term2 == Term0 \cup Term1 \cup Node(TermPats, Term1, Term1)
           \cup {TMat2(s, p, TVar, q, t) : p \in TermPats, q \in TermPats,
                                           s \in {TVar, TLet(CtrB, TVar, TVar)},
                                           t \in {TVar, TLet(CtrA, TVar, TVar)}}

\* Rules of the books with several rules and definitions.
SmallRules ==
  { Rule(<<CtrA>>, TVar),
    Rule(<<PTup(CtrA, CtrB)>>, TVar),
    Rule(<<CtrA, CtrB>>, TVar),
    Rule(<<PVar>>, TLet(CtrA, TVar, TMat1(TVar, CtrB, TVar))) }

\* The definitions (each a sequence of rules) of a book of k rules in all.
RECURSIVE DefSeqs(_)
DefSeqs(k) ==
  IF k = 0 THEN {<<>>}
  ELSE UNION { { <<d>> \o rest : d \in [1..m -> SmallRules], rest \in DefSeqs(k - m) }
               : m \in 1..k }

BookDefs ==
  UNION {DefSeqs(k) : k \in 1..MaxRules}
    \cup { << <<Rule(<<p>>, TVar)>> >> : p \in Pat2 }
    \cup { << <<Rule(<<>>, t)>> >> : t \in Term2 }

Books == [ctrs : SUBSET Names, defs : BookDefs]

\* The books the whole pipeline is run on: one whose patterns are all
\* declared, one with a pattern of two undeclared constructors.
PipelineBooks ==
  { [ctrs |-> {"A", "B"}, defs |-> << <<Rule(<<PTup(CtrA, CtrB)>>, TVar)>> >>],
    [ctrs |-> {}, defs |-> << <<Rule(<<PTup(CtrA, CtrB)>>, TVar)>> >>] }

\* ------------------------------------------------------------------------
\* State machine
\* ------------------------------------------------------------------------

Frame(fn) == [fn |-> fn, i |-> 1]
NoPrev == [res |-> "none", errs |-> <<>>]

RunOptsAll == [single_core : BOOLEAN, debug : BOOLEAN, linear : BOOLEAN,
               lazy_mode : BOOLEAN]
\* RunOpts::default()
default_run_opts == [single_core |-> FALSE, debug |-> FALSE, linear |-> FALSE,
                     lazy_mode |-> FALSE]
WarningOptsAll == [match_only_vars : WarnStates, unused_defs : WarnStates]
\* WarningOpts::default(): WarnState::Warn is the #[default]
default_warning_opts == [match_only_vars |-> "Warn", unused_defs |-> "Warn"]

InitCommon ==
  /\ info = NewInfo
  /\ passes_run = <<>>
  /\ result = [f \in Fns |-> "none"]
  /\ net = "none"
  /\ rdex = 0
  /\ invocation = 1
  /\ prev = NoPrev

\* run_book called by a caller who chose a preset of CompileOpts.
Init ==
  /\ InitCommon
  /\ book \in PipelineBooks
  /\ opts \in {heavy, light, default_opts}
  /\ run_opts \in RunOptsAll
  /\ warning_opts \in WarningOptsAll
  /\ pc = <<>>

\* compile_book called with any CompileOpts.
InitCompile ==
  /\ InitCommon
  /\ book \in PipelineBooks
  /\ opts \in [Flags -> BOOLEAN]
  /\ run_opts = default_run_opts
  /\ warning_opts = default_warning_opts
  /\ pc = <<Frame("compile_book")>>

\* Ctx::check_unbound_pats called on any book.
InitPats ==
  /\ InitCommon
  /\ book \in Books
  /\ opts = default_opts
  /\ run_opts = default_run_opts
  /\ warning_opts = default_warning_opts
  /\ pc = <<Frame("check_unbound_pats")>>

Top == pc[Len(pc)]
Pop == SubSeq(pc, 1, Len(pc) - 1)
Advance == [pc EXCEPT ![Len(pc)].i = @ + 1]

AtStmt == /\ pc # <<>>
          /\ Top.fn \in TableFns
          /\ Top.i <= Len(Body(Top.fn))
CurStmt == Body(Top.fn)[Top.i]
Taken(stmt) == IF stmt.when = "always" THEN TRUE ELSE opts[stmt.when]

\* The functions that hold the Ctx, whose passes record errors in ctx.info.
CtxFns == {"desugar_book", "encode_pattern_matching"}

ReturnErr == /\ result' = [result EXCEPT ![Top.fn] = "Err"]
             /\ pc' = Pop

\* The warnings a pass may leave in ctx.info.warns.
WithWarnings(i, pass) == {i} \cup {warning(i, w) : w \in PassWarning(pass)}

\* `if opts.flag { ... }` with the flag off.
Skip ==
  /\ AtStmt
  /\ ~Taken(CurStmt)
  /\ pc' = Advance
  /\ UNCHANGED <<book, opts, run_opts, warning_opts, info, passes_run, result,
                 net, rdex, invocation, prev>>

\* A pass: it may add warnings, and a pass that records an error either
\* returns unit (the error stays in ctx.info) or ends with its fatal check and
\* returns Err.  With `?` at the call an Err returns from the calling function;
\* without, the value is dropped and the next statement runs.
Pass ==
  /\ AtStmt
  /\ Taken(CurStmt)
  /\ ~CurStmt.call
  /\ passes_run' = Append(passes_run, CurStmt.pass)
  /\ \E failed \in {FALSE} \cup {CurStmt.pass \in ErrorPasses} :
       IF Top.fn \in CtxFns
       THEN LET i0 == IF CurStmt.pass \in ResultPasses THEN start_pass(info) ELSE info
                i1 == IF failed THEN error(i0, CurStmt.pass) ELSE i0
            IN \E i2 \in WithWarnings(i1, CurStmt.pass) :
                 /\ info' = i2
                 /\ IF CurStmt.try /\ CurStmt.pass \in ResultPasses /\ fatal(i2) = "Err"
                    THEN ReturnErr
                    ELSE pc' = Advance /\ UNCHANGED result
       ELSE /\ info' = info
            /\ IF CurStmt.try /\ failed THEN ReturnErr
               ELSE pc' = Advance /\ UNCHANGED result
  /\ UNCHANGED <<book, opts, run_opts, warning_opts, net, rdex, invocation, prev>>

\* A call of a function that is modelled statement by statement.
Call ==
  /\ AtStmt
  /\ Taken(CurStmt)
  /\ CurStmt.call
  /\ result[CurStmt.pass] = "none"
  /\ pc' = Append(pc, Frame(CurStmt.pass))
  /\ UNCHANGED <<book, opts, run_opts, warning_opts, info, passes_run, result,
                 net, rdex, invocation, prev>>

\* `callee(...)?` when the callee returned Err.
Propagate ==
  /\ AtStmt
  /\ CurStmt.call
  /\ result[CurStmt.pass] = "Err"
  /\ CurStmt.try
  /\ ReturnErr
  /\ UNCHANGED <<book, opts, run_opts, warning_opts, info, passes_run, net, rdex,
                 invocation, prev>>

\* The statement after a call that returned.
Resume ==
  /\ AtStmt
  /\ CurStmt.call
  /\ result[CurStmt.pass] \in (IF CurStmt.try THEN {"Ok"} ELSE {"Ok", "Err"})
  /\ pc' = Advance
  /\ UNCHANGED <<book, opts, run_opts, warning_opts, info, passes_run, result,
                 net, rdex, invocation, prev>>

\* The last expression of a function: Ok(..), and for desugar_book
\* `if !ctx.info.has_errors() { Ok(..) } else { Err(ctx.info) }`.
Return ==
  /\ pc # <<>>
  /\ Top.fn \in TableFns
  /\ Top.i > Len(Body(Top.fn))
  /\ result' = [result EXCEPT ![Top.fn] =
                  IF Top.fn = "desugar_book" /\ has_errors(info) THEN "Err" ELSE "Ok"]
  /\ pc' = Pop
  /\ UNCHANGED <<book, opts, run_opts, warning_opts, info, passes_run, net, rdex,
                 invocation, prev>>

\* Ctx::check_unbound_pats
CheckUnboundPats ==
  /\ pc # <<>>
  /\ Top.fn = "check_unbound_pats"
  /\ passes_run' = Append(passes_run, "check_unbound_pats")
  /\ \E i1 \in Ctx_check_unbound_pats(info, book) :
       /\ info' = i1
       /\ result' = [result EXCEPT !["check_unbound_pats"] = fatal(i1)]
  /\ pc' = Pop
  /\ UNCHANGED <<book, opts, run_opts, warning_opts, net, rdex, invocation, prev>>

\* A second invocation of the check on the same book, with a new Ctx.
Reinvoke ==
  /\ pc = <<>>
  /\ invocation = 1
  /\ result["check_unbound_pats"] # "none"
  /\ prev' = [res |-> result["check_unbound_pats"], errs |-> info.errs]
  /\ invocation' = 2
  /\ info' = NewInfo
  /\ passes_run' = <<>>
  /\ result' = [f \in Fns |-> "none"]
  /\ pc' = <<Frame("check_unbound_pats")>>
  /\ UNCHANGED <<book, opts, run_opts, warning_opts, net, rdex>>

NextPats == CheckUnboundPats \/ Reinvoke

SpecPats == InitPats /\ [][NextPats]_vars

NextCompile ==
  \/ Skip
  \/ Pass
  \/ Call
  \/ Propagate
  \/ Resume
  \/ Return
  \/ CheckUnboundPats

SpecCompile == InitCompile /\ [][NextCompile]_vars

\* ------------------------------------------------------------------------
\* lib.rs: run_book and run_compiled
\* ------------------------------------------------------------------------

\* Init::init for hvmc::run::Net
init(lazy) == IF lazy THEN "Lazy" ELSE "Eager"

\* fn expand: the Eager arm, or unreachable!()
expand(n) == IF n = "Eager" THEN "Ok" ELSE "unreachable"

\* fn reduce: the Eager arm, or unreachable!()
reduce(n) == IF n = "Eager" THEN "Ok" ELSE "unreachable"

\* RunOpts::debug_hook: self.debug.then_some(..)
debug_hook(ro) == IF ro.debug THEN "Some" ELSE "None"

\* A panic unwinds every frame.
Panic ==
  /\ result' = [f \in Fns |-> IF f \in {"run_compiled", "run_book"} THEN "panic"
                              ELSE result[f]]
  /\ pc' = <<>>

AtRunCompiled(i) == /\ pc # <<>>
                    /\ Top.fn = "run_compiled"
                    /\ Top.i = i

\* The caller clears the options lazy mode does not support.
CallerLazyMode ==
  /\ pc = <<>>
  /\ result["run_book"] = "none"
  /\ opts' = lazy_mode(opts)
  /\ UNCHANGED <<book, run_opts, warning_opts, pc, info, passes_run, result, net,
                 rdex, invocation, prev>>

CallRunBook ==
  /\ pc = <<>>
  /\ result["run_book"] = "none"
  /\ pc' = <<Frame("run_book")>>
  /\ UNCHANGED <<book, opts, run_opts, warning_opts, info, passes_run, result, net,
                 rdex, invocation, prev>>

\* display_warnings(&warnings, warning_opts)
DisplayWarnings ==
  /\ pc # <<>>
  /\ Top.fn = "display_warnings"
  /\ passes_run' = Append(passes_run, "display_warnings")
  /\ result' = [result EXCEPT !["display_warnings"] =
                  display_warnings(info.warns, warning_opts)]
  /\ pc' = Pop
  /\ UNCHANGED <<book, opts, run_opts, warning_opts, info, net, rdex, invocation,
                 prev>>

\* book_to_runtime and Net::init
RunCompiledInit ==
  /\ AtRunCompiled(1)
  /\ net' = init(run_opts.lazy_mode)
  /\ pc' = Advance
  /\ UNCHANGED <<book, opts, run_opts, warning_opts, info, passes_run, result, rdex,
                 invocation, prev>>

\* `if let Some(mut hook) = hook { expand(root, &runtime_book); ...`
Expand ==
  /\ AtRunCompiled(2)
  /\ debug_hook(run_opts) = "Some"
  /\ IF expand(net) = "Ok"
     THEN /\ \E n \in 0..MaxRdex : rdex' = n
          /\ pc' = Advance
          /\ UNCHANGED result
     ELSE Panic /\ UNCHANGED rdex
  /\ UNCHANGED <<book, opts, run_opts, warning_opts, info, passes_run, net, invocation,
                 prev>>

\* One turn of `while !rdex(root).is_empty() { hook(..); reduce(.., 1); expand(..) }`:
\* one redex is rewritten, and the rewrite and expand may add redexes.
DebugStep ==
  /\ AtRunCompiled(3)
  /\ rdex # 0
  /\ IF reduce(net) = "Ok" /\ expand(net) = "Ok"
     THEN /\ \E n \in (rdex - 1)..MaxRdex : rdex' = n
          /\ UNCHANGED <<pc, result>>
     ELSE Panic /\ UNCHANGED rdex
  /\ UNCHANGED <<book, opts, run_opts, warning_opts, info, passes_run, net, invocation,
                 prev>>

\* The loop ends when no redex is left.
DebugDone ==
  /\ AtRunCompiled(3)
  /\ rdex = 0
  /\ pc' = Advance
  /\ UNCHANGED <<book, opts, run_opts, warning_opts, info, passes_run, result, net,
                 rdex, invocation, prev>>

\* `else if run_opts.single_core { root.normal(&runtime_book) }`
Normal ==
  /\ AtRunCompiled(2)
  /\ debug_hook(run_opts) = "None"
  /\ run_opts.single_core
  /\ rdex' = 0
  /\ pc' = [pc EXCEPT ![Len(pc)].i = 4]
  /\ UNCHANGED <<book, opts, run_opts, warning_opts, info, passes_run, result, net,
                 invocation, prev>>

\* `else { root.parallel_normal(&runtime_book) }`
ParallelNormal ==
  /\ AtRunCompiled(2)
  /\ debug_hook(run_opts) = "None"
  /\ ~run_opts.single_core
  /\ rdex' = 0
  /\ pc' = [pc EXCEPT ![Len(pc)].i = 4]
  /\ UNCHANGED <<book, opts, run_opts, warning_opts, info, passes_run, result, net,
                 invocation, prev>>

\* net_from_runtime, the statistics, and `(net, stats)`
RunCompiledReturn ==
  /\ AtRunCompiled(4)
  /\ result' = [result EXCEPT !["run_compiled"] = "Ok"]
  /\ pc' = Pop
  /\ UNCHANGED <<book, opts, run_opts, warning_opts, info, passes_run, net, rdex,
                 invocation, prev>>

Next ==
  \/ CallerLazyMode
  \/ CallRunBook
  \/ Skip
  \/ Pass
  \/ Call
  \/ Propagate
  \/ Resume
  \/ Return
  \/ CheckUnboundPats
  \/ DisplayWarnings
  \/ RunCompiledInit
  \/ Expand
  \/ DebugStep
  \/ DebugDone
  \/ Normal
  \/ ParallelNormal
  \/ RunCompiledReturn

Spec == Init /\ [][Next]_vars

\* ------------------------------------------------------------------------
\* Properties
\* ------------------------------------------------------------------------

Pos(pass) == {k \in DOMAIN passes_run : passes_run[k] = pass}
Ran(pass) == Pos(pass) # {}

\* Every run of b comes after a run of a, and no run of a comes after one of b.
RunsBefore(a, b) ==
  /\ \A j \in Pos(b) : \E i \in Pos(a) : i < j
  /\ \A i \in Pos(a), j \in Pos(b) : i < j

\* No run of a comes after a run of b.
NeverAfter(a, b) == \A i \in Pos(a), j \in Pos(b) : i < j

Returned(fn) == result[fn] # "none"

\* The pass an entry of ctx.info.errs was recorded by.
ErrPass(e) == IF e.def # 0 THEN "check_unbound_pats" ELSE e.err
ErrorBy(pass) == \E k \in DOMAIN info.errs : ErrPass(info.errs[k]) = pass

Linearizers == {"make_var_names_unique", "linearize_vars"}
Optimizers == {"eta_reduction", "detach_supercombinators", "simplify_ref_to_ref",
               "simplify_main_ref", "inline", "merge_definitions", "prune"}
NetPasses == {"book_to_nets", "nets_to_hvmc", "pre_reduce_book", "prune_defs"}

LinearizeBeforeOptimize == \A l \in Linearizers, o \in Optimizers : RunsBefore(l, o)

\* C1 as stated: the linearizer passes run before every optimizer pass, and
\* no term-rewriting pass runs after the term-level prune.
C1_PruneAfterAllRewrites ==
  /\ LinearizeBeforeOptimize
  /\ \A o \in Optimizers \ {"prune"} : NeverAfter(o, "prune")

\* C1, amended: make_var_names_unique and linearize_vars run before every
\* optimizer pass; the term-level prune runs after eta_reduction,
\* detach_supercombinators, simplify_ref_to_ref and simplify_main_ref; the only
\* term passes that run after it are inline and merge_definitions; and the
\* net-level prune_defs is the last pass of compile_book.
C1_PassOrder ==
  /\ LinearizeBeforeOptimize
  /\ \A o \in {"eta_reduction", "detach_supercombinators", "simplify_ref_to_ref",
               "simplify_main_ref"} : NeverAfter(o, "prune")
  /\ RunsBefore("eta_reduction", "prune")
  /\ \A j \in Pos("prune") : \A i \in DOMAIN passes_run :
       i > j => passes_run[i] \in {"inline", "merge_definitions"} \cup NetPasses
  /\ \A j \in Pos("prune_defs") : j = Len(passes_run)

\* Every optimization on: all the passes have run and compile_book returned Ok.
C1_Witness ==
  /\ result["compile_book"] = "Ok"
  /\ \A o \in Optimizers \cup Linearizers \cup NetPasses : Ran(o)

\* C3: when desugar_book fails, compile_book runs none of book_to_nets,
\* nets_to_hvmc, pre_reduce_book and prune_defs and returns Err, and run_book
\* returns Err without displaying warnings or starting the runtime.
C3_DesugarErrorNoNet ==
  result["desugar_book"] = "Err" =>
    /\ \A k \in DOMAIN passes_run : passes_run[k] \notin NetPasses \cup {"display_warnings"}
    /\ result["compile_book"] \in {"none", "Err"}
    /\ result["run_book"] \in {"none", "Err"}
    /\ result["run_compiled"] = "none"
    /\ net = "none"
    /\ (\A k \in DOMAIN pc : pc[k].fn # "compile_book") => result["compile_book"] = "Err"
    /\ pc = <<>> => result["run_book"] = "Err"

\* run_book has returned the error of a non-exhaustive pattern match.
C3_Witness ==
  /\ pc = <<>>
  /\ result["desugar_book"] = "Err"
  /\ result["run_book"] = "Err"
  /\ ErrorBy("check_exhaustive_patterns")

\* C5 as stated: once any pass has recorded an error, no later pass runs.
C5_EveryCheckReturnsEarly == [][has_errors(info) => passes_run' = passes_run]_vars

\* C5, amended: once a pass called with `?` has recorded an error no later
\* pass runs; an error of check_shared_names, which is called without `?`,
\* does not stop the passes after it; either way compile_book returns Err.
C5_FatalChecks ==
  /\ [][(\E k \in DOMAIN info.errs : ErrPass(info.errs[k]) \in ResultPasses)
          => passes_run' = passes_run]_vars
  /\ [](has_errors(info) /\ pc = <<>> => result["compile_book"] = "Err")

\* The exhaustiveness check has failed and was the last pass to run.
C5_Witness ==
  /\ pc = <<>>
  /\ result["compile_book"] = "Err"
  /\ ErrorBy("check_exhaustive_patterns")
  /\ passes_run[Len(passes_run)] = "check_exhaustive_patterns"

\* C7 as stated: normalize_native_matches has run before extract_adt_matches
\* and before encode_pattern_matching_functions.
C7_NormalizeFirst ==
  /\ RunsBefore("normalize_native_matches", "extract_adt_matches")
  /\ RunsBefore("normalize_native_matches", "encode_pattern_matching_functions")

\* C7, amended: extract_adt_matches, flatten_rules, infer_def_types and
\* encode_pattern_matching_functions run in this order, and
\* normalize_native_matches runs after all of them.
C7_MatchCompilerOrder ==
  /\ RunsBefore("extract_adt_matches", "flatten_rules")
  /\ RunsBefore("flatten_rules", "infer_def_types")
  /\ RunsBefore("infer_def_types", "encode_pattern_matching_functions")
  /\ RunsBefore("encode_pattern_matching_functions", "normalize_native_matches")

\* normalize_native_matches has run and compile_book returned Ok.
C7_Witness ==
  /\ Ran("normalize_native_matches")
  /\ result["compile_book"] = "Ok"

\* C2 as stated: when lazy mode is selected, the compile that feeds the run
\* executes neither detach_supercombinators nor pre_reduce_book.
C2_LazyModeGuard ==
  run_opts.lazy_mode =>
    \A k \in DOMAIN passes_run :
      passes_run[k] \notin {"detach_supercombinators", "pre_reduce_book"}

\* A warning of the batch whose kind is set to Deny.
Denied ==
  \E k \in DOMAIN info.warns :
    \/ info.warns[k] = "MatchOnlyVars" /\ warning_opts.match_only_vars = "Deny"
    \/ info.warns[k] = "UnusedDefinition" /\ warning_opts.unused_defs = "Deny"

\* C4: display_warnings returns Err exactly when a warning of the batch is of
\* a kind set to Deny, and then run_book returns Err without starting the
\* runtime.
C4_DenyIsFatal ==
  Returned("display_warnings") =>
    /\ result["display_warnings"] = "Err" <=> Denied
    /\ result["display_warnings"] = "Err" =>
         /\ net = "none"
         /\ result["run_compiled"] = "none"
         /\ result["run_book"] \in {"none", "Err"}
         /\ pc = <<>> => result["run_book"] = "Err"

\* A denied UnusedDefinition beside an allowed MatchOnlyVars stopped the run.
C4_Witness ==
  /\ pc = <<>>
  /\ result["run_book"] = "Err"
  /\ result["display_warnings"] = "Err"
  /\ info.warns = <<"MatchOnlyVars", "UnusedDefinition">>
  /\ warning_opts = [match_only_vars |-> "Allow", unused_defs |-> "Deny"]

\* C10 as stated: run_compiled never reaches an unreachable!() branch.
C10_NoUnreachable == result["run_compiled"] # "panic"

\* The constructor names used in the Ctr patterns of a pattern, a term, a
\* definition and a book.
RECURSIVE PatCtrs(_)
PatCtrs(pat) ==
  (IF pat.k = "Ctr" THEN {pat.nam} ELSE {})
    \cup UNION {PatCtrs(pat.args[a]) : a \in DOMAIN pat.args}

RECURSIVE TermCtrs(_)
TermCtrs(term) ==
  UNION {PatCtrs(term.pats[a]) : a \in DOMAIN term.pats}
    \cup UNION {TermCtrs(term.sub[a]) : a \in DOMAIN term.sub}

RuleCtrs(rule) ==
  UNION {PatCtrs(rule.pats[a]) : a \in DOMAIN rule.pats} \cup TermCtrs(rule.body)

DefCtrs(def) == UNION {RuleCtrs(def[r]) : r \in DOMAIN def}

BookCtrs(b) == UNION {DefCtrs(b.defs[d]) : d \in DOMAIN b.defs}

\* C6 as stated: the pass records a diagnostic for every undeclared
\* constructor of the patterns of every definition.
C6_EveryUnboundReported ==
  Returned("check_unbound_pats") =>
    \A d \in DOMAIN book.defs : \A n \in DefCtrs(book.defs[d]) \ book.ctrs :
      \E k \in DOMAIN info.errs : info.errs[k] = [def |-> d, err |-> n]

\* C8: check_unbound_pats returns Ok exactly when every constructor name of
\* a Ctr pattern, at any depth of the rule patterns and of the let and match
\* patterns of the rule bodies, is declared in the book.
C8_OkIffDeclared ==
  Returned("check_unbound_pats") =>
    (result["check_unbound_pats"] = "Ok" <=> BookCtrs(book) \subseteq book.ctrs)

\* The only undeclared constructor sits in the second component of a tuple
\* pattern of a match arm, under an application.
C8_Witness ==
  /\ result["check_unbound_pats"] = "Err"
  /\ book.ctrs = {"A"}
  /\ book.defs = << <<Rule(<<>>, TBin("App", TVar,
                                       TMat1(TVar, PTup(CtrA, CtrB), TVar)))>> >>

\* C9 as stated: two invocations on the same book return the same result
\* and the same diagnostics.
C9_SameDiagnostics ==
  invocation = 2 /\ Returned("check_unbound_pats") =>
    prev = [res |-> result["check_unbound_pats"], errs |-> info.errs]

====
